---- MODULE Spec2Model ----
(***************************************************************************)
(* cookie-handoff: seal / unseal (AES-256-GCM envelope with an embedded    *)
(* expiration) and the per-framework cookie option mapping.                *)
(*                                                                         *)
(* Representation.                                                         *)
(*  - A string that travels as a token is a sequence of characters, where  *)
(*    a character is either the separator "." or a run of base64 text (a   *)
(*    chunk).  A chunk records the bytes it decodes to and its spelling:   *)
(*    "urlsafe" (what base64UrlEncode writes), "standard" (the same text   *)
(*    with '+' for '-' or '/' for '_'), "invalid" (text atob rejects).     *)
(*  - AES-GCM and SHA-256 are the platform's; they are modelled as ideal   *)
(*    primitives: SHA-256 is collision free, a ciphertext decrypts only    *)
(*    under the key and IV it was made with and only if no bit of it was   *)
(*    changed.  Secrets are well-formed strings.                           *)
(*  - A JavaScript value is a record tagged with its kind; an object keeps *)
(*    its properties in insertion order.                                   *)
(***************************************************************************)
EXTENDS Integers, Sequences, FiniteSets, TLC

VARIABLES now, calls, opts

vars == <<now, calls, opts>>

\* ------------------------------------------------------------ constants

SEPARATOR == [ch |-> "."]

IV_LENGTH == 12

\* The clock advances MaxTicks times at most, one second at a time.
MaxTicks == 2

\* ------------------------------------------------------ JavaScript values

Undefined == [t |-> "undefined"]

JNull == [t |-> "null"]

JNum(n) == [t |-> "number", v |-> n]

JStr(s) == [t |-> "string", v |-> s]

JArr == [t |-> "array"]

Prop(k, v) == [k |-> k, v |-> v]

JObj(props) == [t |-> "object", props |-> props]

\* typeof v
TypeOf(v) == IF v.t \in {"null", "array"} THEN "object" ELSE v.t

Keys(props) == {props[i].k : i \in 1..Len(props)}

\* The index of the property named k (the keys of an object are distinct).
IndexOf(props, k) == CHOOSE i \in 1..Len(props) : props[i].k = k

\* { ...payload, [k]: v }: an own key keeps its place and takes the new value,
\* a new key goes last.
Spread(payload, k, v) ==
    IF k \in Keys(payload.props)
    THEN JObj([i \in 1..Len(payload.props) |->
                 IF payload.props[i].k = k THEN Prop(k, v) ELSE payload.props[i]])
    ELSE JObj(Append(payload.props, Prop(k, v)))

\* data[k]: reading a property of null or undefined throws a TypeError; a
\* number, a string and an array have no such property.
GetProp(data, k) ==
    IF data.t \in {"null", "undefined"} THEN [threw |-> TRUE]
    ELSE IF data.t = "object" /\ k \in Keys(data.props)
         THEN [threw |-> FALSE, v |-> data.props[IndexOf(data.props, k)].v]
         ELSE [threw |-> FALSE, v |-> Undefined]

\* The property is left in place.
DeleteProp_Keep(data, k) == data

\* delete data[k]
DeleteProp(data, k) ==
    IF data.t = "object"
    THEN JObj(SelectSeq(data.props, LAMBDA p : p.k # k))
    ELSE data

\* An object as a mapping from its keys to their values (toEqual's view).
ToMap(obj) == [k \in Keys(obj.props) |-> obj.props[IndexOf(obj.props, k)].v]

\* ------------------------------------------------------------------ JSON

\* Text that is not JSON.
NotJSON == [syntax |-> "garbage"]

Literal(v) == [syntax |-> "literal", v |-> v]

ObjectText(members) == [syntax |-> "object", members |-> members]

\* JSON.stringify of a scalar, an empty array or an object of scalars.
JSONstringify(v) ==
    IF v.t = "object"
    THEN ObjectText([i \in 1..Len(v.props) |->
                       <<v.props[i].k, Literal(v.props[i].v)>>])
    ELSE Literal(v)

\* The members of an object text as properties: a repeated key keeps its
\* first place and takes its last value.
RECURSIVE Members(_)
Members(ms) ==
    IF ms = <<>> THEN <<>>
    ELSE LET init == Members(SubSeq(ms, 1, Len(ms) - 1))
             last == ms[Len(ms)]
         IN  Spread(JObj(init), last[1], last[2].v).props

\* JSON.parse
JSONparse(text) ==
    CASE text.syntax = "garbage" -> [threw |-> TRUE]
      [] text.syntax = "literal" -> [threw |-> FALSE, v |-> text.v]
      [] text.syntax = "object" -> [threw |-> FALSE, v |-> JObj(Members(text.members))]

\* ----------------------------------------------------------------- bytes

EmptyBytes == [kind |-> "empty"]

\* new TextEncoder().encode(s) and new TextDecoder().decode(b)
TextEncode(s) == [kind |-> "utf8", of |-> s]

TextDecode(b) == IF b.kind = "utf8" THEN b.of ELSE NotJSON

\* crypto.getRandomValues(new Uint8Array(IV_LENGTH)): the draw numbered i.
RandomIV(i) == [kind |-> "iv", len |-> IV_LENGTH, id |-> i, flipped |-> FALSE]

\* ------------------------------------------------------------- base64url

Chunk(bytes, sp) == [ch |-> "b64", bytes |-> bytes, sp |-> sp]

\* btoa with '+' -> '-', '/' -> '_' and the padding removed.
base64UrlEncode(bytes) ==
    IF bytes = EmptyBytes THEN <<>> ELSE <<Chunk(bytes, "urlsafe")>>

\* '-' -> '+', '_' -> '/', then atob: the standard alphabet passes the
\* replacement unchanged, so both spellings give the same bytes; atob throws
\* on text outside the alphabet.
base64UrlDecode(str) ==
    IF \E i \in 1..Len(str) : str[i].sp = "invalid" THEN [threw |-> TRUE]
    ELSE IF str = <<>> THEN [threw |-> FALSE, bytes |-> EmptyBytes]
    ELSE IF Len(str) = 1 THEN [threw |-> FALSE, bytes |-> str[1].bytes]
    ELSE [threw |-> FALSE,
          bytes |-> [kind |-> "concat", of |-> [i \in 1..Len(str) |-> str[i].bytes]]]

\* ------------------------------------------------------------ primitives

\* crypto.subtle.digest('SHA-256', data)
SHA256(data) == [kind |-> "sha256", of |-> data]

\* One key whatever the secret.
deriveKey_Fixed(secret) == [name |-> "AES-GCM", raw |-> SHA256(TextEncode(""))]

deriveKey(secret) == [name |-> "AES-GCM", raw |-> SHA256(TextEncode(secret))]

\* crypto.subtle.encrypt({name: 'AES-GCM', iv, tagLength: 128}, key, plaintext)
Encrypt(key, iv, plaintext) ==
    [kind |-> "aesgcm", key |-> key, iv |-> iv, pt |-> plaintext, flipped |-> FALSE]

\* crypto.subtle.decrypt: throws unless the tag verifies.
Decrypt(key, iv, ciphertext) ==
    IF /\ ciphertext.kind = "aesgcm"
       /\ ~ciphertext.flipped
       /\ ciphertext.key = key
       /\ ciphertext.iv = iv
    THEN [threw |-> FALSE, pt |-> ciphertext.pt]
    ELSE [threw |-> TRUE]

\* ---------------------------------------------------------------- tokens

\* A token argument: a string, or undefined.
Str(chars) == [present |-> TRUE, chars |-> chars]

Absent == [present |-> FALSE, chars |-> <<>>]

\* !token
Falsy(token) == ~token.present \/ token.chars = <<>>

HasSep(s) == \E i \in 1..Len(s) : s[i] = SEPARATOR

FirstSep(s) == CHOOSE i \in 1..Len(s) :
                  s[i] = SEPARATOR /\ \A j \in 1..(i - 1) : s[j] # SEPARATOR

\* token.split(SEPARATOR)
RECURSIVE Split(_)
Split(s) ==
    IF ~HasSep(s) THEN <<s>>
    ELSE <<SubSeq(s, 1, FirstSep(s) - 1)>> \o Split(SubSeq(s, FirstSep(s) + 1, Len(s)))

\* `${ivB64}${SEPARATOR}${ctB64}`
Join(ivB64, ctB64) == Str(ivB64 \o <<SEPARATOR>> \o ctB64)

\* ------------------------------------------------------------------ seal

\* Date.now() + ttlSeconds * 1000
Expiration(clock, ttlSeconds) == clock + ttlSeconds * 1000

\* new TextEncoder().encode(JSON.stringify({ ...payload, _exp: exp }))
SealPlaintext(payload, exp) ==
    TextEncode(JSONstringify(Spread(payload, "_exp", JNum(exp))))

\* The token built from the IV and the ciphertext.
SealToken(iv, ciphertext) ==
    Join(base64UrlEncode(iv), base64UrlEncode(ciphertext))

\* seal(payload, secret, ttlSeconds) run on its own, reading the clock as
\* `clock` and drawing the IV numbered `draw`.
seal(payload, secret, ttlSeconds, clock, draw) ==
    SealToken(RandomIV(draw),
              Encrypt(deriveKey(secret), RandomIV(draw),
                      SealPlaintext(payload, Expiration(clock, ttlSeconds))))

\* ---------------------------------------------------------------- unseal

Returned(v) == [outcome |-> "returned", result |-> v]

Threw == [outcome |-> "threw"]

\* The secret is not looked at.
PreCheckFails_AnySecret(token, secret) ==
    \/ Falsy(token)
    \/ Len(Split(token.chars)) # 2

\* if (!token || !secret) return null ... if (parts.length !== 2) return null
PreCheckFails(token, secret) ==
    \/ Falsy(token)
    \/ secret = ""
    \/ Len(Split(token.chars)) # 2

\* const [ivB64, ctB64] = parts, decoded.
DecodedIV(token) == base64UrlDecode(Split(token.chars)[1])

DecodedCT(token) == base64UrlDecode(Split(token.chars)[2])

DecodeFails(token) == DecodedIV(token).threw \/ DecodedCT(token).threw

\* exp <= Date.now()
Expired_Inclusive(exp, clock) == exp <= clock

\* The comparison the wrong way round.
Expired_Reversed(exp, clock) == exp > clock

\* exp < Date.now()
Expired(exp, clock) == exp < clock

\* unseal from the JSON.parse on: what it returns or throws, with the
\* embedded expiration and the clock reading once it has read them.
Validate(plaintext, clock) ==
    LET parsed == JSONparse(TextDecode(plaintext))
    IN  IF parsed.threw THEN Returned(JNull)
        ELSE LET got == GetProp(parsed.v, "_exp")
             IN  IF got.threw THEN Threw
                 ELSE IF TypeOf(got.v) # "number"
                      THEN Returned(JNull) @@ [exp |-> got.v]
                 ELSE IF Expired(got.v.v, clock)
                      THEN Returned(JNull) @@ [exp |-> got.v, clock |-> clock]
                 ELSE Returned(DeleteProp(parsed.v, "_exp"))
                         @@ [exp |-> got.v, clock |-> clock]

\* A decryption that does not verify the tag: whatever the ciphertext holds
\* is taken as the plaintext.
DecryptAndValidate_NoTag(key, iv, ciphertext, clock) ==
    IF ciphertext.kind = "aesgcm" THEN Validate(ciphertext.pt, clock)
    ELSE Returned(JNull)

\* unseal from the decrypt on.
DecryptAndValidate(key, iv, ciphertext, clock) ==
    LET dec == Decrypt(key, iv, ciphertext)
    IN  IF dec.threw THEN Returned(JNull) ELSE Validate(dec.pt, clock)

\* unseal(token, secret) run on its own, reading the clock as `clock`.
unseal(token, secret, clock) ==
    IF PreCheckFails(token, secret) \/ DecodeFails(token) THEN Returned(JNull)
    ELSE DecryptAndValidate(deriveKey(secret), DecodedIV(token).bytes,
                            DecodedCT(token).bytes, clock)

\* ----------------------------------------------------------------- inputs

Calls == {1, 2}

\* { id: 'u1' } and a payload that uses the reserved key itself.
Payloads ==
    { JObj(<<Prop("id", JStr("u1"))>>),
      JObj(<<Prop("_exp", JNum(7)), Prop("id", JStr("u1"))>>) }

Secrets == {"", "a", "b"}

TTLs == {-1, 1}

Draws == {1, 2}

\* A token seal returned, changed before it reaches unseal.
FlipIV(token) ==
    Str([token.chars EXCEPT ![1].bytes.flipped = TRUE])

FlipCT(token) ==
    Str([token.chars EXCEPT ![3].bytes.flipped = TRUE])

Respell(token) ==
    Str([token.chars EXCEPT ![3].sp = "standard"])

Garble(token) ==
    Str([token.chars EXCEPT ![1].sp = "invalid"])

AppendPart(token) ==
    Str(token.chars \o <<SEPARATOR, Chunk(EmptyBytes, "invalid")>>)

Tampered(token) ==
    {FlipIV(token), FlipCT(token), Respell(token), Garble(token), AppendPart(token)}

\* A token made outside seal by a holder of secret "a": the encryption of an
\* arbitrary text.
Crafted(text) ==
    SealToken(RandomIV(1), Encrypt(deriveKey("a"), RandomIV(1), TextEncode(text)))

CraftedTexts ==
    { NotJSON, Literal(JNull), Literal(JNum(5)), Literal(JStr("x")), Literal(JArr),
      ObjectText(<<>>),
      ObjectText(<< <<"_exp", Literal(JStr("2000"))>> >>),
      ObjectText(<< <<"_exp", Literal(JNull)>> >>) }

\* undefined, '', 'not-dot-separated', 'a.b.c', '.', 'a.b'
MalformedTokens ==
    { Absent,
      Str(<<>>),
      Str(<<Chunk(EmptyBytes, "invalid")>>),
      Str(<<Chunk(EmptyBytes, "invalid"), SEPARATOR, Chunk(EmptyBytes, "invalid"),
            SEPARATOR, Chunk(EmptyBytes, "invalid")>>),
      Str(<<SEPARATOR>>),
      Str(<<Chunk(EmptyBytes, "invalid"), SEPARATOR, Chunk(EmptyBytes, "invalid")>>) }

\* The tokens completed seal calls have returned and not yet let go of.
SealedTokens ==
    {calls[c].result : c \in {d \in Calls : calls[d].op = "seal" /\ calls[d].pc = "done"}}

\* The tokens unseal calls hold.
HeldTokens ==
    {calls[c].token : c \in {d \in Calls : calls[d].op = "unseal"}}

\* ------------------------------------------------------------------ state

Idle == [op |-> "idle", pc |-> "idle"]

Init ==
    /\ now = 0
    /\ calls = [c \in Calls |-> Idle]
    /\ opts = [fn |-> "none"]

Free(c) == calls[c].pc \in {"idle", "done"}

\* One secret kept for all calls: the one another call in the slots brought.
Secret_Shared(c) ==
    LET others == {d \in Calls \ {c} : calls[d].op # "idle"}
    IN  IF others = {} THEN calls[c].secret
        ELSE calls[CHOOSE d \in others : TRUE].secret

\* The secret call c was given.
Secret(c) == calls[c].secret

\* Date.now() moves on.
Tick ==
    /\ now < MaxTicks * 1000
    /\ now' = now + 1000
    /\ UNCHANGED <<calls, opts>>

\* seal(payload, secret, ttlSeconds) is called: it runs to the await of the
\* digest in deriveKey.
SealInvoke(c, payload, secret, ttlSeconds) ==
    /\ Free(c)
    /\ calls' = [calls EXCEPT ![c] =
                   [op |-> "seal", pc |-> "deriveKey", payload |-> payload,
                    secret |-> secret, ttl |-> ttlSeconds]]
    /\ UNCHANGED <<now, opts>>

\* The key arrives: seal draws the IV, reads the clock, builds the plaintext
\* and runs to the await of the encryption.
SealDerived(c) ==
    /\ calls[c].op = "seal"
    /\ calls[c].pc = "deriveKey"
    /\ \E draw \in Draws :
         calls' = [calls EXCEPT ![c] =
                     [op |-> "seal", pc |-> "encrypt", payload |-> calls[c].payload,
                      secret |-> calls[c].secret, ttl |-> calls[c].ttl,
                      key |-> deriveKey(Secret(c)),
                      draw |-> draw,
                      iv |-> RandomIV(draw),
                      clock |-> now,
                      plaintext |-> SealPlaintext(calls[c].payload,
                                                  Expiration(now, calls[c].ttl))]]
    /\ UNCHANGED <<now, opts>>

\* The ciphertext arrives: seal returns the token.
SealEncrypted(c) ==
    /\ calls[c].op = "seal"
    /\ calls[c].pc = "encrypt"
    /\ calls' = [calls EXCEPT ![c] =
                   [calls[c] EXCEPT !.pc = "done"] @@
                   [outcome |-> "returned",
                    result |-> SealToken(calls[c].iv,
                                         Encrypt(calls[c].key, calls[c].iv,
                                                 calls[c].plaintext))]]
    /\ UNCHANGED <<now, opts>>

\* unseal(token, secret) is called: it returns null at once, or decodes the
\* two parts and runs to the await of the digest in deriveKey.
UnsealInvoke(c, token, secret) ==
    /\ Free(c)
    /\ calls' = [calls EXCEPT ![c] =
                   IF PreCheckFails(token, secret) \/ DecodeFails(token)
                   THEN [op |-> "unseal", pc |-> "done", token |-> token,
                         secret |-> secret, outcome |-> "returned", result |-> JNull]
                   ELSE [op |-> "unseal", pc |-> "deriveKey", token |-> token,
                         secret |-> secret, iv |-> DecodedIV(token).bytes,
                         ciphertext |-> DecodedCT(token).bytes]]
    /\ UNCHANGED <<now, opts>>

\* The key arrives: unseal runs to the await of the decryption.
UnsealDerived(c) ==
    /\ calls[c].op = "unseal"
    /\ calls[c].pc = "deriveKey"
    /\ calls' = [calls EXCEPT ![c] =
                   [calls[c] EXCEPT !.pc = "decrypt"] @@ [key |-> deriveKey(Secret(c))]]
    /\ UNCHANGED <<now, opts>>

\* The decryption settles: unseal parses, checks the expiration and returns.
UnsealDecrypted(c) ==
    /\ calls[c].op = "unseal"
    /\ calls[c].pc = "decrypt"
    /\ calls' = [calls EXCEPT ![c] =
                   DecryptAndValidate(calls[c].key, calls[c].iv, calls[c].ciphertext, now)
                     @@ [calls[c] EXCEPT !.pc = "done"]]
    /\ UNCHANGED <<now, opts>>

\* One caller, one call at a time: a token comes from the call before (as
\* returned, or changed on the way), or from outside.
Next ==
    \/ Tick
    \/ \E p \in Payloads, s \in Secrets, t \in TTLs : SealInvoke(1, p, s, t)
    \/ SealDerived(1)
    \/ SealEncrypted(1)
    \/ \E s \in Secrets :
         \E tk \in SealedTokens \cup UNION {Tampered(x) : x \in SealedTokens}
                     \cup HeldTokens \cup MalformedTokens
                     \cup {Crafted(x) : x \in CraftedTexts} :
            UnsealInvoke(1, tk, s)
    \/ UnsealDerived(1)
    \/ UnsealDecrypted(1)

Spec == Init /\ [][Next]_vars

\* Any number of callers: two calls at a time, each at its own suspension
\* point, over one payload, two secrets and the tokens the calls pass on,
\* as returned or with a bit of the ciphertext changed, and a token that
\* decrypts to the text null.
ConcPayloads == {JObj(<<Prop("id", JStr("u1"))>>)}

ConcSecrets == {"a", "b"}

NextConc ==
    \/ Tick
    \/ \E c \in Calls, p \in ConcPayloads, s \in ConcSecrets, t \in TTLs :
         SealInvoke(c, p, s, t)
    \/ \E c \in Calls : SealDerived(c)
    \/ \E c \in Calls : SealEncrypted(c)
    \/ \E c \in Calls, s \in ConcSecrets :
         \E tk \in SealedTokens \cup HeldTokens \cup {Absent}
                     \cup {FlipCT(x) : x \in SealedTokens}
                     \cup {Crafted(Literal(JNull))} :
            UnsealInvoke(c, tk, s)
    \/ \E c \in Calls : UnsealDerived(c)
    \/ \E c \in Calls : UnsealDecrypted(c)

SpecConc == Init /\ [][NextConc]_vars

\* -------------------------------------------------------- cookie options

Adapters == {"next", "express", "hono", "standard"}

DEFAULTS == [httpOnly |-> TRUE, secure |-> TRUE, sameSite |-> "lax", path |-> "/"]

NoFields == [k \in {} |-> TRUE]

\* The adapter is ignored: seconds for every framework.
toMaxAge_Seconds(ttlSeconds, adapter) == ttlSeconds

toMaxAge(ttlSeconds, adapter) ==
    IF adapter = "express" THEN ttlSeconds * 1000 ELSE ttlSeconds

\* overrides ?? {}
OrEmpty(overrides) == IF overrides = Undefined THEN NoFields ELSE overrides

\* const { ttlSeconds, ...rest } = overrides ?? {}
Rest(overrides) ==
    [k \in DOMAIN OrEmpty(overrides) \ {"ttlSeconds"} |-> OrEmpty(overrides)[k]]

getCookieOptions(adapter, overrides) ==
    LET o == OrEmpty(overrides)
        merged == Rest(overrides) @@ DEFAULTS
    IN  IF "ttlSeconds" \in DOMAIN o /\ TypeOf(o.ttlSeconds) = "number"
        THEN [maxAge |-> toMaxAge(o.ttlSeconds.v, adapter)] @@ merged
        ELSE merged

clearCookieOptions(adapter, overrides) ==
    [maxAge |-> 0, value |-> ""] @@ OrEmpty(overrides) @@ DEFAULTS

\* The overrides a caller passes: any subset of these fields, each with a
\* value that is not the default.
OverrideValue(k, ttl) ==
    CASE k = "ttlSeconds" -> ttl
      [] k = "maxAge" -> 5
      [] k = "path" -> "/api"
      [] k = "httpOnly" -> FALSE
      [] k = "name" -> "ctx"
      [] k = "domain" -> ".example.com"

TtlChoices == {JNum(0), JNum(60), JNum(300), JStr("60")}

Overrides ==
    {Undefined} \cup
    { [k \in D |-> OverrideValue(k, ttl)] :
        D \in SUBSET {"ttlSeconds", "maxAge", "path", "httpOnly", "name"},
        ttl \in TtlChoices }

ClearOverrides ==
    {Undefined} \cup
    { [k \in D |-> OverrideValue(k, JNum(0))] : D \in SUBSET {"name", "domain", "path"} }

GetCookieOptions(adapter, overrides) ==
    /\ opts' = [fn |-> "getCookieOptions", adapter |-> adapter,
                overrides |-> overrides,
                result |-> getCookieOptions(adapter, overrides)]
    /\ UNCHANGED <<now, calls>>

ClearCookieOptions(adapter, overrides) ==
    /\ opts' = [fn |-> "clearCookieOptions", adapter |-> adapter,
                overrides |-> overrides,
                result |-> clearCookieOptions(adapter, overrides)]
    /\ UNCHANGED <<now, calls>>

NextCookie ==
    \/ \E a \in Adapters, o \in Overrides : GetCookieOptions(a, o)
    \/ \E a \in Adapters, o \in ClearOverrides : ClearCookieOptions(a, o)

SpecCookie == Init /\ [][NextCookie]_vars

\* C9: getCookieOptions turns a supplied ttlSeconds n into maxAge = n * 1000
\* for 'express' and maxAge = n for 'next', 'hono' and 'standard'; the record
\* it returns carries httpOnly true, secure true, sameSite 'lax', path '/'
\* except where an override replaces them, and holds no ttlSeconds field.
C9_MaxAgeUnits ==
    opts.fn = "getCookieOptions" =>
      LET o == IF opts.overrides = Undefined THEN NoFields ELSE opts.overrides
          r == opts.result
      IN  /\ ("ttlSeconds" \in DOMAIN o /\ o.ttlSeconds.t = "number") =>
                /\ "maxAge" \in DOMAIN r
                /\ r.maxAge = IF opts.adapter = "express"
                              THEN o.ttlSeconds.v * 1000
                              ELSE o.ttlSeconds.v
          /\ \A k \in {"httpOnly", "secure", "sameSite", "path"} :
                /\ k \in DOMAIN r
                /\ r[k] = IF k \in DOMAIN o THEN o[k] ELSE DEFAULTS[k]
          /\ "ttlSeconds" \notin DOMAIN r

C9_Witness ==
    /\ opts.fn = "getCookieOptions"
    /\ opts.adapter = "express"
    /\ opts.overrides # Undefined
    /\ DOMAIN opts.overrides = {"ttlSeconds", "path"}
    /\ opts.overrides.ttlSeconds = JNum(60)
    /\ opts.result.maxAge = 60000
    /\ opts.result.path = "/api"
    /\ opts.result.httpOnly = TRUE

\* ------------------------------------------------------------- properties

Clocks == {i * 1000 : i \in 0..MaxTicks}

\* Every way seal can be run within the bounds, and the token each run returns.
SealRuns == [p : Payloads, s : Secrets, t : TTLs, t0 : Clocks, d : Draws]

SealOf(r) == seal(r.p, r.s, r.t, r.t0, r.d)

DoneUnseal(c) == calls[c].op = "unseal" /\ calls[c].pc = "done"

DoneSeal(c) == calls[c].op = "seal" /\ calls[c].pc = "done"

IsNull(c) == calls[c].outcome = "returned" /\ calls[c].result = JNull

IsPayload(c) == calls[c].outcome = "returned" /\ calls[c].result.t = "object"

HasClock(c) == "clock" \in DOMAIN calls[c]

\* The payload as a mapping, without the reserved key.
SansExp(p) == [k \in Keys(p.props) \ {"_exp"} |-> ToMap(p)[k]]

\* C1 as stated: for every payload P, non-empty secret S and ttlSeconds
\* T > 0, unseal(seal(P, S, T), S) returns P without the reserved _exp field,
\* whenever unseal is run.
C1_Original ==
    \A c \in Calls : DoneUnseal(c) =>
      \A r \in SealRuns :
        (r.s # "" /\ r.t > 0 /\ calls[c].token = SealOf(r) /\ calls[c].secret = r.s)
          => /\ IsPayload(c)
             /\ ToMap(calls[c].result) = SansExp(r.p)

\* C1 amended: for every payload P, non-empty secret S and ttlSeconds T > 0,
\* unseal(seal(P, S, T), S) returns P without the reserved _exp field (a
\* caller field named _exp is overwritten on seal and absent from the result)
\* provided unseal reads the clock no later than the embedded expiration
\* t0 + T * 1000.
C1_RoundTrip ==
    \A c \in Calls : DoneUnseal(c) =>
      \A r \in SealRuns :
        ( /\ r.s # ""
          /\ r.t > 0
          /\ calls[c].token = SealOf(r)
          /\ calls[c].secret = r.s
          /\ HasClock(c) => calls[c].clock <= r.t0 + r.t * 1000 )
          => /\ IsPayload(c)
             /\ ToMap(calls[c].result) = SansExp(r.p)

C1_Witness ==
    \E c \in Calls, r \in SealRuns :
      /\ DoneUnseal(c)
      /\ r.s # ""
      /\ r.t > 0
      /\ "_exp" \in Keys(r.p.props)
      /\ calls[c].token = SealOf(r)
      /\ calls[c].secret = r.s
      /\ IsPayload(c)
      /\ calls[c].clock > r.t0
      /\ ToMap(calls[c].result) = [k \in {"id"} |-> JStr("u1")]

\* C2: for every token and every secret unseal completes without raising and
\* returns a payload mapping or null; a token that decrypts under the secret
\* to text that is not JSON, or to JSON that is not a keyed mapping (null,
\* number, string, array), yields null.
C2_NeverRaises ==
    \A c \in Calls : DoneUnseal(c) =>
      /\ calls[c].outcome = "returned"
      /\ calls[c].result = JNull \/ calls[c].result.t = "object"
      /\ \A x \in CraftedTexts :
           (calls[c].token = Crafted(x) /\ calls[c].secret = "a" /\ x.syntax # "object")
             => calls[c].result = JNull

BitFlips(token) == {FlipIV(token), FlipCT(token)}

\* C4 as stated: changing any bit of either component of a sealed token makes
\* unseal with the sealing secret return null, and unseal never returns a
\* payload for a token that differs from every token seal produces under that
\* secret.
C4_Original ==
    \A c \in Calls : DoneUnseal(c) =>
      /\ \A r \in SealRuns :
           (calls[c].token \in BitFlips(SealOf(r)) /\ calls[c].secret = r.s) => IsNull(c)
      /\ IsPayload(c) =>
           \E r \in SealRuns : r.s = calls[c].secret /\ calls[c].token = SealOf(r)

\* C4 amended: changing any bit of the bytes of either component (the
\* initialization vector or the ciphertext-with-tag) of a sealed token makes
\* unseal with the sealing secret return null, and unseal returns a payload
\* only for a token of two parts that decode to an IV and a ciphertext-with-tag
\* made, unchanged, under that secret's key with that IV; the text of the
\* token may differ from seal's in its base64 spelling.
C4_Tamper ==
    \A c \in Calls : DoneUnseal(c) =>
      /\ \A r \in SealRuns :
           (calls[c].token \in BitFlips(SealOf(r)) /\ calls[c].secret = r.s) => IsNull(c)
      /\ IsPayload(c) =>
           /\ Len(Split(calls[c].token.chars)) = 2
           /\ ~DecodeFails(calls[c].token)
           /\ LET iv == DecodedIV(calls[c].token).bytes
                  ct == DecodedCT(calls[c].token).bytes
              IN  /\ ct.kind = "aesgcm"
                  /\ ~ct.flipped
                  /\ ct.iv = iv
                  /\ ct.key = deriveKey(calls[c].secret)

C4_Witness ==
    \E c \in Calls, r \in SealRuns :
      /\ DoneUnseal(c)
      /\ r.t > 0
      /\ r.s # ""
      /\ calls[c].secret = r.s
      /\ calls[c].token = FlipCT(SealOf(r))
      /\ "key" \in DOMAIN calls[c]
      /\ IsNull(c)

\* The separators in a token.
Seps(token) ==
    Cardinality({i \in 1..Len(token.chars) : token.chars[i] = SEPARATOR})

\* C6: unseal returns null, before any key is derived, whenever the token is
\* absent or empty, whenever the secret is empty (also for a token sealed
\* with the empty secret), and whenever the token holds no separator or two
\* or more.
C6_PreDecryption ==
    \A c \in Calls :
      ( /\ calls[c].op = "unseal"
        /\ \/ ~calls[c].token.present
           \/ calls[c].token.chars = <<>>
           \/ calls[c].secret = ""
           \/ Seps(calls[c].token) # 1 )
        => /\ calls[c].pc = "done"
           /\ IsNull(c)
           /\ "key" \notin DOMAIN calls[c]

C6_Witness ==
    \E c \in Calls, r \in SealRuns :
      /\ DoneUnseal(c)
      /\ r.s = ""
      /\ r.t > 0
      /\ calls[c].token = SealOf(r)
      /\ calls[c].secret = ""
      /\ IsNull(c)

\* C10 as stated: unseal returns null when the embedded expiration equals the
\* clock reading, returns the payload only when the expiration is strictly
\* later, and rejects a token whose expiration is absent or not a number.
C10_Original ==
    \A c \in Calls : (DoneUnseal(c) /\ "exp" \in DOMAIN calls[c]) =>
      IF TypeOf(calls[c].exp) # "number" THEN IsNull(c)
      ELSE /\ calls[c].exp.v <= calls[c].clock => IsNull(c)
           /\ calls[c].exp.v > calls[c].clock => IsPayload(c)

\* C10 amended: unseal returns null when the embedded expiration is earlier
\* than the clock reading and returns the payload, without _exp, when it is
\* equal or later: the exact expiration instant is still accepted; a token
\* whose expiration is absent or not a number is rejected.
C10_Boundary ==
    \A c \in Calls : (DoneUnseal(c) /\ "exp" \in DOMAIN calls[c]) =>
      IF TypeOf(calls[c].exp) # "number" THEN IsNull(c)
      ELSE /\ calls[c].exp.v < calls[c].clock => IsNull(c)
           /\ calls[c].exp.v >= calls[c].clock =>
                IsPayload(c) /\ "_exp" \notin Keys(calls[c].result.props)

C10_Witness ==
    \E c \in Calls, r \in SealRuns :
      /\ DoneUnseal(c)
      /\ calls[c].token = SealOf(r)
      /\ calls[c].secret = r.s
      /\ HasClock(c)
      /\ calls[c].exp.v = calls[c].clock
      /\ calls[c].clock = r.t0 + r.t * 1000
      /\ IsPayload(c)

\* C5: a token sealed at clock reading t0 with ttlSeconds T is rejected by
\* every unseal whose clock reading is later than t0 + T * 1000 (so a token
\* sealed with T = -1 is rejected by every unseal that reads the clock no
\* earlier than seal did), and, the clock never going back, once unseal has
\* returned null for a token and a secret, every unseal of that token with
\* that secret that reads the clock no earlier also returns null.
C5_Expiration ==
    /\ \A s \in Calls, u \in Calls :
         (DoneSeal(s) /\ DoneUnseal(u) /\ calls[u].token = calls[s].result) =>
           /\ (HasClock(u) /\ calls[u].clock > calls[s].clock + calls[s].ttl * 1000)
                => IsNull(u)
           /\ (calls[s].ttl = -1 /\ (HasClock(u) => calls[u].clock >= calls[s].clock))
                => IsNull(u)
    /\ \A u \in Calls, v \in Calls :
         ( /\ DoneUnseal(u)
           /\ DoneUnseal(v)
           /\ calls[u].token = calls[v].token
           /\ calls[u].secret = calls[v].secret
           /\ IsNull(u)
           /\ (HasClock(u) /\ HasClock(v)) => calls[v].clock >= calls[u].clock )
           => IsNull(v)

C5_Witness ==
    \E u \in Calls, v \in Calls :
      /\ DoneUnseal(u)
      /\ DoneUnseal(v)
      /\ calls[u].token = calls[v].token
      /\ calls[u].secret = calls[v].secret
      /\ HasClock(u)
      /\ HasClock(v)
      /\ calls[u].exp.v = 0
      /\ calls[u].clock = 1000
      /\ calls[v].clock = 2000
      /\ IsNull(u)
      /\ IsNull(v)

\* C8: however seal and unseal calls are interleaved at their suspension
\* points, the result of each call is the result of the same call run on its
\* own with the same arguments, the same clock reading and the same IV draw.
C8_Reentrant ==
    \A c \in Calls :
      /\ DoneSeal(c) =>
           /\ calls[c].outcome = "returned"
           /\ calls[c].result = seal(calls[c].payload, calls[c].secret, calls[c].ttl,
                                     calls[c].clock, calls[c].draw)
      /\ DoneUnseal(c) =>
           LET alone == unseal(calls[c].token, calls[c].secret,
                               IF HasClock(c) THEN calls[c].clock ELSE now)
           IN  /\ alone.outcome = calls[c].outcome
               /\ alone.outcome = "returned" => alone.result = calls[c].result
               /\ HasClock(c) <=> "clock" \in DOMAIN alone

\* An unseal ran from its decryption to its return, a second after a seal
\* with another secret read the clock, while that seal awaited its encryption.
C8_Witness ==
    \E c \in Calls, d \in Calls :
      /\ calls[c].op = "seal"
      /\ calls[c].pc = "encrypt"
      /\ calls[c].clock = 0
      /\ DoneUnseal(d)
      /\ IsPayload(d)
      /\ calls[d].clock = 1000
      /\ calls[d].secret # calls[c].secret

====
